---------------------------- MODULE Spec2Model ----------------------------
(***************************************************************************)
(* hv: bring-up of VMX operation on one core (vcpu::virtualize and the     *)
(* operations it calls), the vm-exit dispatcher and the host interrupt     *)
(* bridge.                                                                 *)
(*                                                                         *)
(* Representation.  A flags register (CR0, CR4, an MSR, a VMCS control     *)
(* word, the exit reason) is the set of the positions of its 1 bits, so    *)
(* that |= is \cup, &= is \cap and bit 31 and above need no wide integer.  *)
(* A bit-field is read with Field, which gives the number held in a range  *)
(* of bit positions.  Addresses are integers.                              *)
(*                                                                         *)
(* Every per-core piece of state is a function of the core.                *)
(***************************************************************************)
EXTENDS Integers, Sequences, FiniteSets, TLC

VARIABLES
  pc,            \* per core: the place of the core in the code
  cpuid_1_ecx,   \* per core: CPUID leaf 1, ECX (flags)
  msr,           \* per core: the model-specific registers the code reads
  cr0,           \* per core: control register 0 (flags)
  cr4,           \* per core: control register 4 (flags)
  rflags_if,     \* per core: the maskable-interrupt flag
  vmx_mode,      \* per core: "off" | "root" | "non_root"
  current_vmcs,  \* per core: the current-VMCS pointer, NoVmcs when none
  phys,          \* per core: get_physical() of the regions of the object
  vaddr,         \* per core: the virtual addresses of members of the object
  vmxon_,        \* per core: the VMXON region's header
  vmcs_,         \* per core: the VMCS region's header
  vmcs_launch,   \* per core: the launch state of the VMCS ("clear", "launched", "undefined")
  vmcs_fields,   \* per core: the fields of the VMCS
  msr_bitmap_,   \* per core: content of the MSR bitmap ("garbage" | "zero")
  host_tss_,     \* per core: content of the host TSS ("garbage" | "zero")
  host_idt_,     \* per core: content of the host IDT ("garbage" | "prepared")
  host_gdt_,     \* per core: content of the host GDT
  local,         \* per core: the locals of the function being run
  ret,           \* per core: the value returned by the last callee
  result,        \* per core: what virtualize() returned ("none" | "true" | "false")
  trace,         \* per core: the steps virtualize() has executed, in order
  handed,        \* per core: the physical addresses handed to the hardware
  at_entry,      \* per core: CR0, CR4 and the interrupt flag when virtualize() was entered
  dispatched,    \* per core: the handlers the last handle_vm_exit invoked
  frame,         \* per core: the trap frame of the host interrupt being handled
  calls,         \* per core: invocations of set_vmcs_pointer so far
  after_call     \* per core: the VMCS state each set_vmcs_pointer call left

vars == << pc, cpuid_1_ecx, msr, cr0, cr4, rflags_if, vmx_mode, current_vmcs,
           phys, vaddr, vmxon_, vmcs_, vmcs_launch, vmcs_fields, msr_bitmap_,
           host_tss_, host_idt_, host_gdt_, local, ret, result, trace, handed,
           at_entry, dispatched, frame, calls, after_call >>

(***************************************************************************)
(* Bit fields                                                              *)
(***************************************************************************)
RECURSIVE Pow2(_)
Pow2(n) == IF n = 0 THEN 1 ELSE 2 * Pow2(n - 1)

RECURSIVE BitsToNat(_)
\* the number whose 1 bits are at the positions in S
BitsToNat(S) ==
  IF S = {} THEN 0
  ELSE LET b == CHOOSE x \in S : TRUE IN Pow2(b) + BitsToNat(S \ {b})

\* the bit-field of flags in positions lo..hi, as a number
Field(flags, lo, hi) == BitsToNat({b - lo : b \in {x \in flags : x >= lo /\ x <= hi}})

Bit(flags, b) == IF b \in flags THEN 1 ELSE 0

\* flags with bit b set to v
SetBit(flags, b, v) == IF v = 1 THEN flags \cup {b} ELSE flags \ {b}

(***************************************************************************)
(* Architectural constants the code names                                  *)
(***************************************************************************)
CPUID_VMX_BIT == 5                 \* cpuid_feature_information_ecx.virtual_machine_extensions
FEATURE_CONTROL_LOCK_BIT == 0      \* ia32_feature_control_register.lock_bit
FEATURE_CONTROL_VMX_OUTSIDE_SMX_BIT == 2  \* .enable_vmx_outside_smx
CR4_VMX_ENABLE_BIT == 13
CR4_VMX_ENABLE_FLAG == {CR4_VMX_ENABLE_BIT}
REVISION_ID_BITS == 31             \* ia32_vmx_basic_register.vmcs_revision_id : 31
PAGE_SIZE == 4096                  \* 0x1000
NoVmcs == -1                       \* the current-VMCS pointer when there is none

Cores == {1, 2}


(***************************************************************************)
(* The values the environment can present to the code                      *)
(***************************************************************************)
\* CPUID.1:ECX, without and with the VMX bit
CpuidValues == { {0}, {0, CPUID_VMX_BIT} }

\* IA32_FEATURE_CONTROL: lock, VMX inside SMX (bit 1), VMX outside SMX
FeatureControlValues == { {0}, {2}, {0, 1}, {0, 2} }

Cr0Values == { {0, 4, 31}, {0, 16, 30, 31} }
Cr4Values == { {5}, {5, 7, CR4_VMX_ENABLE_BIT} }

\* IA32_VMX_CRn_FIXED0 / FIXED1 as the hardware reports them.  A bit that is
\* 1 in FIXED0 is 1 in FIXED1 (SDM vol. 3, A.7 and A.8), and a core whose
\* CPUID reports VMX allows CR4.VMXE to be set.
Cr0FixedValues == { [fixed0 |-> {0, 5, 31}, fixed1 |-> {0, 1, 4, 5, 16, 30, 31}],
                    [fixed0 |-> {5},        fixed1 |-> {0, 4, 5, 31}] }
Cr4FixedValues == { [fixed0 |-> {CR4_VMX_ENABLE_BIT}, fixed1 |-> {5, 7, CR4_VMX_ENABLE_BIT}],
                    [fixed0 |-> {},                   fixed1 |-> {5, CR4_VMX_ENABLE_BIT}] }

\* IA32_VMX_BASIC: the revision identifier in bits 0..30, bit 31 clear, the
\* region size and the capability bits above
VmxBasicValues == { {0, 44}, {2, 44, 55} }

\* what the two region headers hold before the code stamps them
StaleHeaders == { [revision_id |-> 0, flag |-> 0], [revision_id |-> 9, flag |-> 1] }

\* the object of core c lies at ObjectBase(c); its members follow the layout
\* of class vcpu
ObjectBase(c) == c * 1048576
Offsets == [vmxon_ |-> 0, vmcs_ |-> 4096, msr_bitmap_ |-> 8192,
            host_stack_ |-> 12288, host_tss_ |-> 36864,
            host_idt_ |-> 36968, host_gdt_ |-> 41064]
VAddr(c) == [m \in DOMAIN Offsets |-> ObjectBase(c) + Offsets[m]]

\* get_physical: a lookup the code does not control; the page offset it
\* answers with is either 0 or 8
PhysValues(c) ==
  { [vmxon_ |-> VAddr(c).vmxon_ + a, vmcs_ |-> VAddr(c).vmcs_ + b,
     msr_bitmap_ |-> VAddr(c).msr_bitmap_ + d] : a, b, d \in {0, 8} }

\* the environment virtualize() captures as the guest's initial state
GuestEnv ==
  [ cr3 |-> 1843200, dr7 |-> 1024, rflags |-> {1, 9}, rsp |-> 33554432,
    gdtr |-> [base_address |-> 20480, limit |-> 127],
    idtr |-> [base_address |-> 24576, limit |-> 4095],
    fs_base |-> 0, gs_base |-> 28672,
    debugctl |-> 0, sysenter_cs |-> 0, sysenter_esp |-> 0, sysenter_eip |-> 0,
    segment |-> [sel \in {0, 16, 24, 43, 64, 83} |->
                   [base |-> IF sel = 64 THEN 32768 ELSE 0,
                    limit |-> IF sel = 0 THEN 0 ELSE IF sel = 64 THEN 103 ELSE 1048575,
                    access |-> sel + 147]] ]

(***************************************************************************)
(* The VMCS fields                                                         *)
(***************************************************************************)
host_stack_size == 24576           \* 0x6000
host_cs_selector == 8              \* { 0, 0, 1 }: index 1
host_tr_selector == 16             \* { 0, 0, 2 }: index 2
vmx_active == 0
nmi == 2                           \* the NMI vector
NMI_WINDOW_EXITING_BIT == 22       \* ia32_vmx_procbased_ctls_register.nmi_window_exiting
LINK_POINTER_NONE == -1            \* 0xFFFFFFFF'FFFFFFFF

\* entry points of the two trampolines
Trampoline == [vm_exit |-> 7340032, vm_launch |-> 7344128]

\* the fields whose value is a flags word
FlagFields == { "VMCS_CTRL_PIN_BASED_VM_EXECUTION_CONTROLS",
                "VMCS_CTRL_PROCESSOR_BASED_VM_EXECUTION_CONTROLS",
                "VMCS_CTRL_SECONDARY_PROCESSOR_BASED_VM_EXECUTION_CONTROLS",
                "VMCS_CTRL_VMEXIT_CONTROLS", "VMCS_CTRL_VMENTRY_CONTROLS",
                "VMCS_HOST_CR0", "VMCS_HOST_CR4", "VMCS_GUEST_CR0", "VMCS_GUEST_CR4",
                "VMCS_GUEST_RFLAGS", "VMCS_EXIT_REASON" }

\* write_vmcs_ctrl_fields: its writes, in order.  ndebug: built with NDEBUG.
CtrlWrites(msr_bitmap_phys, ndebug) ==
  << << "VMCS_CTRL_PIN_BASED_VM_EXECUTION_CONTROLS", {3, 5} >>,
     << "VMCS_CTRL_PROCESSOR_BASED_VM_EXECUTION_CONTROLS",
        (IF ndebug THEN {} ELSE {15, 16}) \cup {28, 31} >>,
     << "VMCS_CTRL_SECONDARY_PROCESSOR_BASED_VM_EXECUTION_CONTROLS", {3, 12, 19, 20, 26} >>,
     << "VMCS_CTRL_VMEXIT_CONTROLS", {2, 9, 24} >>,
     << "VMCS_CTRL_VMENTRY_CONTROLS", {2, 9, 17} >>,
     << "VMCS_CTRL_EXCEPTION_BITMAP", 0 >>,
     << "VMCS_CTRL_PAGEFAULT_ERROR_CODE_MASK", 0 >>,
     << "VMCS_CTRL_PAGEFAULT_ERROR_CODE_MATCH", 0 >>,
     << "VMCS_CTRL_CR4_GUEST_HOST_MASK", 0 >>,
     << "VMCS_CTRL_CR4_READ_SHADOW", 0 >>,
     << "VMCS_CTRL_CR0_GUEST_HOST_MASK", 0 >>,
     << "VMCS_CTRL_CR0_READ_SHADOW", 0 >>,
     << "VMCS_CTRL_CR3_TARGET_COUNT", 0 >>,
     << "VMCS_CTRL_CR3_TARGET_VALUE_0", 0 >>,
     << "VMCS_CTRL_CR3_TARGET_VALUE_1", 0 >>,
     << "VMCS_CTRL_CR3_TARGET_VALUE_2", 0 >>,
     << "VMCS_CTRL_CR3_TARGET_VALUE_3", 0 >>,
     << "VMCS_CTRL_MSR_BITMAP_ADDRESS", msr_bitmap_phys >>,
     << "VMCS_CTRL_VMEXIT_MSR_STORE_COUNT", 0 >>,
     << "VMCS_CTRL_VMEXIT_MSR_STORE_ADDRESS", 0 >>,
     << "VMCS_CTRL_VMEXIT_MSR_LOAD_COUNT", 0 >>,
     << "VMCS_CTRL_VMEXIT_MSR_LOAD_ADDRESS", 0 >>,
     << "VMCS_CTRL_VMENTRY_MSR_LOAD_COUNT", 0 >>,
     << "VMCS_CTRL_VMENTRY_MSR_LOAD_ADDRESS", 0 >>,
     << "VMCS_CTRL_VMENTRY_INTERRUPTION_INFORMATION_FIELD", 0 >>,
     << "VMCS_CTRL_VMENTRY_EXCEPTION_ERROR_CODE", 0 >>,
     << "VMCS_CTRL_VMENTRY_INSTRUCTION_LENGTH", 0 >> >>

\* HostRsp without the - 8
HostRsp_NoOffset(stack) ==
  LET top == stack + host_stack_size IN top - (top % 16)

\* ((host_stack_ + host_stack_size) & ~0b1111) - 8
HostRsp(stack) ==
  LET top == stack + host_stack_size IN (top - (top % 16)) - 8

\* write_vmcs_host_fields: its writes, in order
HostWrites(readcr0, readcr4, this) ==
  << << "VMCS_HOST_CR0", readcr0 >>,
     << "VMCS_HOST_CR3", GuestEnv.cr3 >>,
     << "VMCS_HOST_CR4", readcr4 >>,
     << "VMCS_HOST_RSP", HostRsp(this.host_stack_) >>,
     << "VMCS_HOST_RIP", Trampoline.vm_exit >>,
     << "VMCS_HOST_CS_SELECTOR", host_cs_selector >>,
     << "VMCS_HOST_SS_SELECTOR", 0 >>,
     << "VMCS_HOST_DS_SELECTOR", 0 >>,
     << "VMCS_HOST_ES_SELECTOR", 0 >>,
     << "VMCS_HOST_FS_SELECTOR", 0 >>,
     << "VMCS_HOST_GS_SELECTOR", 0 >>,
     << "VMCS_HOST_TR_SELECTOR", host_tr_selector >>,
     << "VMCS_HOST_FS_BASE", 0 >>,
     << "VMCS_HOST_GS_BASE", 0 >>,
     << "VMCS_HOST_TR_BASE", this.host_tss_ >>,
     << "VMCS_HOST_GDTR_BASE", this.host_gdt_ >>,
     << "VMCS_HOST_IDTR_BASE", this.host_idt_ >>,
     << "VMCS_HOST_SYSENTER_CS", 0 >>,
     << "VMCS_HOST_SYSENTER_ESP", 0 >>,
     << "VMCS_HOST_SYSENTER_EIP", 0 >> >>

\* the selector, base, limit and access-rights writes of one guest segment
GuestSegments == << << "CS", 16 >>, << "SS", 24 >>, << "DS", 43 >>, << "ES", 43 >>,
                    << "FS", 83 >>, << "GS", 43 >>, << "TR", 64 >>, << "LDTR", 0 >> >>

segment_base(sel) == GuestEnv.segment[sel].base
segmentlimit(sel) == GuestEnv.segment[sel].limit
segment_access(sel) == GuestEnv.segment[sel].access

\* write_vmcs_guest_fields: its writes, in order
GuestWrites(readcr0, readcr4, readeflags) ==
  << << "VMCS_GUEST_CR0", readcr0 >>,
     << "VMCS_GUEST_CR3", GuestEnv.cr3 >>,
     << "VMCS_GUEST_CR4", readcr4 >>,
     << "VMCS_GUEST_DR7", GuestEnv.dr7 >>,
     << "VMCS_GUEST_RSP", 0 >>,
     << "VMCS_GUEST_RIP", 0 >>,
     << "VMCS_GUEST_RFLAGS", readeflags >> >>
  \o [i \in 1..8 |-> << "VMCS_GUEST_" \o GuestSegments[i][1] \o "_SELECTOR", GuestSegments[i][2] >>]
  \o [i \in 1..8 |-> << "VMCS_GUEST_" \o GuestSegments[i][1] \o "_BASE",
                        IF GuestSegments[i][1] = "FS" THEN GuestEnv.fs_base
                        ELSE IF GuestSegments[i][1] = "GS" THEN GuestEnv.gs_base
                        ELSE segment_base(GuestSegments[i][2]) >>]
  \o [i \in 1..8 |-> << "VMCS_GUEST_" \o GuestSegments[i][1] \o "_LIMIT",
                        segmentlimit(GuestSegments[i][2]) >>]
  \o [i \in 1..8 |-> << "VMCS_GUEST_" \o GuestSegments[i][1] \o "_ACCESS_RIGHTS",
                        segment_access(GuestSegments[i][2]) >>]
  \o << << "VMCS_GUEST_GDTR_BASE", GuestEnv.gdtr.base_address >>,
        << "VMCS_GUEST_IDTR_BASE", GuestEnv.idtr.base_address >>,
        << "VMCS_GUEST_GDTR_LIMIT", GuestEnv.gdtr.limit >>,
        << "VMCS_GUEST_IDTR_LIMIT", GuestEnv.idtr.limit >>,
        << "VMCS_GUEST_DEBUGCTL", GuestEnv.debugctl >>,
        << "VMCS_GUEST_SYSENTER_CS", GuestEnv.sysenter_cs >>,
        << "VMCS_GUEST_SYSENTER_ESP", GuestEnv.sysenter_esp >>,
        << "VMCS_GUEST_SYSENTER_EIP", GuestEnv.sysenter_eip >>,
        << "VMCS_GUEST_ACTIVITY_STATE", vmx_active >>,
        << "VMCS_GUEST_INTERRUPTIBILITY_STATE", 0 >>,
        << "VMCS_GUEST_PENDING_DEBUG_EXCEPTIONS", 0 >>,
        << "VMCS_GUEST_VMCS_LINK_POINTER", LINK_POINTER_NONE >> >>

FieldsOf(writes) == { writes[i][1] : i \in DOMAIN writes }

\* every field of the VMCS the code reads or writes
AllFields ==
  FieldsOf(CtrlWrites(0, TRUE)) \cup FieldsOf(HostWrites({}, {}, VAddr(1)))
    \cup FieldsOf(GuestWrites({}, {}, {}))
    \cup { "VMCS_EXIT_REASON", "VMCS_VM_INSTRUCTION_ERROR" }

(***************************************************************************)
(* Initial states                                                          *)
(***************************************************************************)
MsrValues ==
  { [ IA32_FEATURE_CONTROL |-> fc,
      IA32_VMX_CR0_FIXED0 |-> f0.fixed0, IA32_VMX_CR0_FIXED1 |-> f0.fixed1,
      IA32_VMX_CR4_FIXED0 |-> f4.fixed0, IA32_VMX_CR4_FIXED1 |-> f4.fixed1,
      IA32_VMX_BASIC |-> basic ] :
      fc \in FeatureControlValues, f0 \in Cr0FixedValues, f4 \in Cr4FixedValues,
      basic \in VmxBasicValues }

ZeroFields == [f \in AllFields |-> IF f \in FlagFields THEN {} ELSE 0]

NoLocals == [cr0 |-> {}, cr4 |-> {}, vmxon_phys |-> 0, vmcs_phys |-> 0]
NoDispatch == [reason |-> {}, handlers |-> << >>, fatal |-> FALSE]
NoFrame == [vector |-> 0, ctrl_before |-> {}, resume |-> "none"]

\* a core that is not running the code: it never takes a step
Parked(c) ==
  [ pc |-> "parked", cpuid_1_ecx |-> {0},
    msr |-> [ IA32_FEATURE_CONTROL |-> {0},
              IA32_VMX_CR0_FIXED0 |-> {5}, IA32_VMX_CR0_FIXED1 |-> {0, 4, 5, 31},
              IA32_VMX_CR4_FIXED0 |-> {}, IA32_VMX_CR4_FIXED1 |-> {5, CR4_VMX_ENABLE_BIT},
              IA32_VMX_BASIC |-> {0, 44} ],
    cr0 |-> {0, 4, 31}, cr4 |-> {5},
    phys |-> [vmxon_ |-> VAddr(c).vmxon_, vmcs_ |-> VAddr(c).vmcs_,
              msr_bitmap_ |-> VAddr(c).msr_bitmap_],
    header |-> [revision_id |-> 0, flag |-> 0] ]

\* the state of the cores before any of them runs: core 1 is given every
\* environment, the others are parked
InitWith(start) ==
  /\ \E ecx \in CpuidValues, m \in MsrValues, c0 \in Cr0Values, c4 \in Cr4Values,
        p \in PhysValues(1), h \in StaleHeaders :
       LET one == [ pc |-> start, cpuid_1_ecx |-> ecx, msr |-> m, cr0 |-> c0,
                    cr4 |-> c4, phys |-> p, header |-> h ]
           st == [c \in Cores |-> IF c = 1 THEN one ELSE Parked(c)]
       IN /\ pc = [c \in Cores |-> st[c].pc]
          /\ cpuid_1_ecx = [c \in Cores |-> st[c].cpuid_1_ecx]
          /\ msr = [c \in Cores |-> st[c].msr]
          /\ cr0 = [c \in Cores |-> st[c].cr0]
          /\ cr4 = [c \in Cores |-> st[c].cr4]
          /\ phys = [c \in Cores |-> st[c].phys]
          /\ vmxon_ = [c \in Cores |-> [revision_id |-> st[c].header.revision_id,
                                        must_be_zero |-> st[c].header.flag]]
          /\ vmcs_ = [c \in Cores |-> [revision_id |-> st[c].header.revision_id,
                                       shadow_vmcs_indicator |-> st[c].header.flag]]
          /\ at_entry = [c \in Cores |-> [cr0 |-> st[c].cr0, cr4 |-> st[c].cr4,
                                          rflags_if |-> TRUE]]
  /\ rflags_if = [c \in Cores |-> TRUE]
  /\ vmx_mode = [c \in Cores |-> "off"]
  /\ current_vmcs = [c \in Cores |-> NoVmcs]
  /\ vaddr = [c \in Cores |-> VAddr(c)]
  /\ vmcs_launch = [c \in Cores |-> "undefined"]
  /\ vmcs_fields = [c \in Cores |-> ZeroFields]
  /\ msr_bitmap_ = [c \in Cores |-> "garbage"]
  /\ host_tss_ = [c \in Cores |-> "garbage"]
  /\ host_idt_ = [c \in Cores |-> "garbage"]
  /\ host_gdt_ = [c \in Cores |-> [content |-> "garbage", tss |-> 0]]
  /\ local = [c \in Cores |-> NoLocals]
  /\ ret = [c \in Cores |-> FALSE]
  /\ result = [c \in Cores |-> "none"]
  /\ trace = [c \in Cores |-> << >>]
  /\ handed = [c \in Cores |-> << >>]
  /\ dispatched = [c \in Cores |-> NoDispatch]
  /\ frame = [c \in Cores |-> NoFrame]
  /\ calls = [c \in Cores |-> 0]
  /\ after_call = [c \in Cores |-> << >>]

Init == InitWith("virtualize")

(***************************************************************************)
(* Helpers of the actions                                                  *)
(***************************************************************************)
Goto(c, label) == pc' = [pc EXCEPT ![c] = label]
Return(c, value, label) == /\ ret' = [ret EXCEPT ![c] = value]
                           /\ Goto(c, label)
Log(c, op, ok) == trace' = [trace EXCEPT ![c] = Append(@, [op |-> op, ok |-> ok])]
Hand(c, insn, address) ==
  handed' = [handed EXCEPT ![c] = Append(@, [insn |-> insn, address |-> address])]

environment == << cpuid_1_ecx, msr, phys, vaddr, at_entry >>
registers == << cr0, cr4, rflags_if >>
vmx_state == << vmx_mode, current_vmcs, vmcs_launch, vmcs_fields >>
regions == << vmxon_, vmcs_ >>
tables == << msr_bitmap_, host_tss_, host_idt_, host_gdt_ >>
runtime == << dispatched, frame >>
lifecycle == << calls, after_call >>

(***************************************************************************)
(* vcpu::enable_vmx_operation                                              *)
(***************************************************************************)
\* cpuid_1.cpuid_feature_information_ecx.virtual_machine_extensions
VmxSupported(ecx) == Bit(ecx, CPUID_VMX_BIT) = 1

\* FeatureControlOk with the VMX-outside-SMX bit left unchecked
FeatureControlOk_LockOnly(fc) == Bit(fc, FEATURE_CONTROL_LOCK_BIT) = 1

\* feature_control.lock_bit && feature_control.enable_vmx_outside_smx
FeatureControlOk(fc) ==
  Bit(fc, FEATURE_CONTROL_LOCK_BIT) = 1 /\ Bit(fc, FEATURE_CONTROL_VMX_OUTSIDE_SMX_BIT) = 1

\* cr0 |= FIXED0; cr0 &= FIXED1
FixedCr0(value, fixed0, fixed1) == (value \cup fixed0) \cap fixed1

\* FixedCr4 without cr4 |= CR4_VMX_ENABLE_FLAG
FixedCr4_NoVmxEnable(value, fixed0, fixed1) == (value \cup fixed0) \cap fixed1

\* cr4 |= CR4_VMX_ENABLE_FLAG; cr4 |= FIXED0; cr4 &= FIXED1
FixedCr4(value, fixed0, fixed1) == ((value \cup CR4_VMX_ENABLE_FLAG) \cup fixed0) \cap fixed1

\* virtualize() calls enable_vmx_operation()
virtualize(c) ==
  /\ pc[c] = "virtualize"
  /\ Goto(c, "enable_cpuid")
  /\ UNCHANGED << environment, registers, vmx_state, regions, tables, local, ret,
                  result, trace, handed, runtime, lifecycle >>

enable_cpuid(c) ==
  /\ pc[c] = "enable_cpuid"
  /\ IF VmxSupported(cpuid_1_ecx[c])
       THEN Goto(c, "enable_feature_control") /\ UNCHANGED ret
       ELSE Return(c, FALSE, "virtualize_24")
  /\ UNCHANGED << environment, registers, vmx_state, regions, tables, local,
                  result, trace, handed, runtime, lifecycle >>

enable_feature_control(c) ==
  /\ pc[c] = "enable_feature_control"
  /\ IF FeatureControlOk(msr[c].IA32_FEATURE_CONTROL)
       THEN Goto(c, "enable_disable") /\ UNCHANGED ret
       ELSE Return(c, FALSE, "virtualize_24")
  /\ UNCHANGED << environment, registers, vmx_state, regions, tables, local,
                  result, trace, handed, runtime, lifecycle >>

\* enable_disable without the _disable(): the interrupt flag stays as it was
enable_disable_NoDisable(c) ==
  /\ pc[c] = "enable_disable"
  /\ Goto(c, "enable_readcr0")
  /\ UNCHANGED << environment, registers, vmx_state, regions, tables, local, ret,
                  result, trace, handed, runtime, lifecycle >>

\* _disable()
enable_disable(c) ==
  /\ pc[c] = "enable_disable"
  /\ rflags_if' = [rflags_if EXCEPT ![c] = FALSE]
  /\ Goto(c, "enable_readcr0")
  /\ UNCHANGED << environment, cr0, cr4, vmx_state, regions, tables, local, ret,
                  result, trace, handed, runtime, lifecycle >>

\* auto cr0 = __readcr0()
enable_readcr0(c) ==
  /\ pc[c] = "enable_readcr0"
  /\ local' = [local EXCEPT ![c].cr0 = cr0[c]]
  /\ Goto(c, "enable_readcr4")
  /\ UNCHANGED << environment, registers, vmx_state, regions, tables, ret,
                  result, trace, handed, runtime, lifecycle >>

\* auto cr4 = __readcr4()
enable_readcr4(c) ==
  /\ pc[c] = "enable_readcr4"
  /\ local' = [local EXCEPT ![c].cr4 = cr4[c]]
  /\ Goto(c, "enable_fixed")
  /\ UNCHANGED << environment, registers, vmx_state, regions, tables, ret,
                  result, trace, handed, runtime, lifecycle >>

\* the edits of the two locals
enable_fixed(c) ==
  /\ pc[c] = "enable_fixed"
  /\ local' = [local EXCEPT
       ![c].cr0 = FixedCr0(@, msr[c].IA32_VMX_CR0_FIXED0, msr[c].IA32_VMX_CR0_FIXED1),
       ![c].cr4 = FixedCr4(@, msr[c].IA32_VMX_CR4_FIXED0, msr[c].IA32_VMX_CR4_FIXED1)]
  /\ Goto(c, "enable_writecr0")
  /\ UNCHANGED << environment, registers, vmx_state, regions, tables, ret,
                  result, trace, handed, runtime, lifecycle >>

\* __writecr0(cr0)
enable_writecr0(c) ==
  /\ pc[c] = "enable_writecr0"
  /\ cr0' = [cr0 EXCEPT ![c] = local[c].cr0]
  /\ Log(c, "writecr0", TRUE)
  /\ Goto(c, "enable_writecr4")
  /\ UNCHANGED << environment, cr4, rflags_if, vmx_state, regions, tables, local, ret,
                  result, handed, runtime, lifecycle >>

\* __writecr4(cr4)
enable_writecr4(c) ==
  /\ pc[c] = "enable_writecr4"
  /\ cr4' = [cr4 EXCEPT ![c] = local[c].cr4]
  /\ Log(c, "writecr4", TRUE)
  /\ Goto(c, "enable_enable")
  /\ UNCHANGED << environment, cr0, rflags_if, vmx_state, regions, tables, local, ret,
                  result, handed, runtime, lifecycle >>

\* _enable(); return true
enable_enable(c) ==
  /\ pc[c] = "enable_enable"
  /\ rflags_if' = [rflags_if EXCEPT ![c] = TRUE]
  /\ Return(c, TRUE, "virtualize_24")
  /\ UNCHANGED << environment, cr0, cr4, vmx_state, regions, tables, local,
                  result, trace, handed, runtime, lifecycle >>

enable_vmx_operation(c) ==
  \/ enable_cpuid(c) \/ enable_feature_control(c) \/ enable_disable(c)
  \/ enable_readcr0(c) \/ enable_readcr4(c) \/ enable_fixed(c)
  \/ enable_writecr0(c) \/ enable_writecr4(c) \/ enable_enable(c)

\* if (!enable_vmx_operation()) return false
virtualize_24(c) ==
  /\ pc[c] = "virtualize_24"
  /\ Log(c, "enable_vmx_operation", ret[c])
  /\ IF ret[c]
       THEN Goto(c, "enter_stamp") /\ UNCHANGED result
       ELSE Goto(c, "returned") /\ result' = [result EXCEPT ![c] = "false"]
  /\ UNCHANGED << environment, registers, vmx_state, regions, tables, local, ret,
                  handed, runtime, lifecycle >>

(***************************************************************************)
(* A maskable interrupt arriving while enable_vmx_operation() runs         *)
(***************************************************************************)
\* the labels of virtualize() up to the return of enable_vmx_operation()
EnableLabels == { "virtualize", "enable_cpuid", "enable_feature_control",
                  "enable_disable", "enable_readcr0", "enable_readcr4",
                  "enable_fixed", "enable_writecr0", "enable_writecr4",
                  "enable_enable", "virtualize_24" }

\* the core takes a maskable interrupt (vector 32) between two instructions:
\* only with RFLAGS.IF set; the gate clears IF and the handler runs with the
\* control registers as the interrupted code left them
maskable_interrupt(c) ==
  /\ pc[c] \in EnableLabels
  /\ rflags_if[c]
  /\ frame' = [frame EXCEPT ![c] = [vector |-> 32, ctrl_before |-> {},
                                    resume |-> pc[c]]]
  /\ rflags_if' = [rflags_if EXCEPT ![c] = FALSE]
  /\ Goto(c, "isr")
  /\ UNCHANGED << environment, cr0, cr4, vmx_state, regions, tables, local, ret,
                  result, trace, handed, dispatched, lifecycle >>

\* the handler returns: iret restores IF and resumes the interrupted code
isr_return(c) ==
  /\ pc[c] = "isr"
  /\ rflags_if' = [rflags_if EXCEPT ![c] = TRUE]
  /\ Goto(c, frame[c].resume)
  /\ frame' = [frame EXCEPT ![c] = NoFrame]
  /\ UNCHANGED << environment, cr0, cr4, vmx_state, regions, tables, local, ret,
                  result, trace, handed, dispatched, lifecycle >>

(***************************************************************************)
(* The VMX instructions, as the hardware executes them                     *)
(***************************************************************************)
\* vmx_basic.vmcs_revision_id
Revision(vmx_basic) == Field(vmx_basic, 0, REVISION_ID_BITS - 1)

\* phys % 0x1000 == 0
PageAligned(address) == address % PAGE_SIZE = 0

\* VMXON, VMCLEAR and VMPTRLD may fail for reasons the code does not see, and
\* do fail on a misaligned address; VMXON and VMPTRLD also fail on a region
\* whose revision identifier is not the one the core reports
Outcomes(c, address, revision_id) ==
  IF PageAligned(address) /\ revision_id = Revision(msr[c].IA32_VMX_BASIC)
    THEN {TRUE, FALSE} ELSE {FALSE}

\* vmx_vmwrite: writes a field of the current VMCS of the core
vmx_vmwrite(c, fields, field, value) ==
  IF current_vmcs[c] = phys[c].vmcs_ THEN [fields EXCEPT ![field] = value] ELSE fields

RECURSIVE WriteFrom(_, _, _, _)
WriteFrom(c, fields, writes, i) ==
  IF i > Len(writes) THEN fields
  ELSE WriteFrom(c, vmx_vmwrite(c, fields, writes[i][1], writes[i][2]), writes, i + 1)

\* the writes of a sequence, in its order
WriteAll(c, writes) ==
  vmcs_fields' = [vmcs_fields EXCEPT ![c] = WriteFrom(c, @, writes, 1)]

\* VMXOFF leaves VMX operation; outside VMX operation it is an invalid opcode
vmx_vmxoff(c, next) ==
  /\ Log(c, "vmxoff", vmx_mode[c] = "root")
  /\ IF vmx_mode[c] = "root"
       THEN vmx_mode' = [vmx_mode EXCEPT ![c] = "off"] /\ next
       ELSE Goto(c, "invalid_opcode") /\ UNCHANGED << vmx_mode, result >>

\* return false from virtualize()
ReturnFalse(c) == Goto(c, "returned") /\ result' = [result EXCEPT ![c] = "false"]

(***************************************************************************)
(* vcpu::enter_vmx_operation                                               *)
(***************************************************************************)
\* vmxon_.revision_id = vmx_basic.vmcs_revision_id; vmxon_.must_be_zero = 0
enter_stamp(c) ==
  /\ pc[c] = "enter_stamp"
  /\ vmxon_' = [vmxon_ EXCEPT ![c] = [revision_id |-> Revision(msr[c].IA32_VMX_BASIC),
                                      must_be_zero |-> 0]]
  /\ Goto(c, "enter_phys")
  /\ UNCHANGED << environment, registers, vmx_state, vmcs_, tables, local, ret,
                  result, trace, handed, runtime, lifecycle >>

\* auto vmxon_phys = get_physical(&vmxon_); NT_ASSERT(vmxon_phys % 0x1000 == 0)
enter_phys(c) ==
  /\ pc[c] = "enter_phys"
  /\ local' = [local EXCEPT ![c].vmxon_phys = phys[c].vmxon_]
  /\ IF PageAligned(phys[c].vmxon_) THEN Goto(c, "enter_vmxon") ELSE Goto(c, "nt_assert")
  /\ UNCHANGED << environment, registers, vmx_state, regions, tables, ret,
                  result, trace, handed, runtime, lifecycle >>

\* if (!vmx_vmxon(vmxon_phys)) return false
enter_vmxon(c) ==
  /\ pc[c] = "enter_vmxon"
  /\ \E ok \in Outcomes(c, local[c].vmxon_phys, vmxon_[c].revision_id) :
       /\ Log(c, "vmxon", ok)
       /\ IF ok
            THEN /\ vmx_mode' = [vmx_mode EXCEPT ![c] = "root"]
                 /\ current_vmcs' = [current_vmcs EXCEPT ![c] = NoVmcs]
                 /\ Goto(c, "enter_invept")
                 /\ UNCHANGED ret
            ELSE /\ Return(c, FALSE, "virtualize_29")
                 /\ UNCHANGED << vmx_mode, current_vmcs >>
  /\ Hand(c, "vmxon", local[c].vmxon_phys)
  /\ UNCHANGED << environment, registers, vmcs_launch, vmcs_fields, regions, tables,
                  local, result, runtime, lifecycle >>

\* enter_invept returning true without the INVEPT
enter_invept_Skipped(c) ==
  /\ pc[c] = "enter_invept"
  /\ Return(c, TRUE, "virtualize_29")
  /\ UNCHANGED << environment, registers, vmx_state, regions, tables, local,
                  result, trace, handed, runtime, lifecycle >>

\* vmx_invept(invept_all_context, {}); return true
enter_invept(c) ==
  /\ pc[c] = "enter_invept"
  /\ Log(c, "invept", TRUE)
  /\ Return(c, TRUE, "virtualize_29")
  /\ UNCHANGED << environment, registers, vmx_state, regions, tables, local,
                  result, handed, runtime, lifecycle >>

enter_vmx_operation(c) ==
  enter_stamp(c) \/ enter_phys(c) \/ enter_vmxon(c) \/ enter_invept(c)

\* if (!enter_vmx_operation()) return false
virtualize_29(c) ==
  /\ pc[c] = "virtualize_29"
  /\ IF ret[c] THEN Goto(c, "set_stamp") /\ UNCHANGED result ELSE ReturnFalse(c)
  /\ UNCHANGED << environment, registers, vmx_state, regions, tables, local, ret,
                  trace, handed, runtime, lifecycle >>

(***************************************************************************)
(* vcpu::set_vmcs_pointer                                                  *)
(***************************************************************************)
\* what a call of set_vmcs_pointer leaves behind
Left(c, returned, current, launch) ==
  after_call' = [after_call EXCEPT ![c] =
    Append(@, [ret |-> returned, current |-> current, launch |-> launch,
               revision_id |-> vmcs_[c].revision_id,
               shadow_vmcs_indicator |-> vmcs_[c].shadow_vmcs_indicator,
               fields |-> vmcs_fields[c]])]

\* set_stamp without the assignment of the revision identifier
set_stamp_NoRevision(c) ==
  /\ pc[c] = "set_stamp"
  /\ vmcs_' = [vmcs_ EXCEPT ![c].shadow_vmcs_indicator = 0]
  /\ calls' = [calls EXCEPT ![c] = @ + 1]
  /\ Goto(c, "set_phys")
  /\ UNCHANGED << environment, registers, vmx_state, vmxon_, tables, local, ret,
                  result, trace, handed, runtime, after_call >>

\* vmcs_.revision_id = vmx_basic.vmcs_revision_id; vmcs_.shadow_vmcs_indicator = 0
set_stamp(c) ==
  /\ pc[c] = "set_stamp"
  /\ vmcs_' = [vmcs_ EXCEPT ![c] = [revision_id |-> Revision(msr[c].IA32_VMX_BASIC),
                                    shadow_vmcs_indicator |-> 0]]
  /\ calls' = [calls EXCEPT ![c] = @ + 1]
  /\ Goto(c, "set_phys")
  /\ UNCHANGED << environment, registers, vmx_state, vmxon_, tables, local, ret,
                  result, trace, handed, runtime, after_call >>

\* auto vmcs_phys = get_physical(&vmcs_); NT_ASSERT(vmcs_phys % 0x1000 == 0)
set_phys(c) ==
  /\ pc[c] = "set_phys"
  /\ local' = [local EXCEPT ![c].vmcs_phys = phys[c].vmcs_]
  /\ IF PageAligned(phys[c].vmcs_) THEN Goto(c, "set_vmclear") ELSE Goto(c, "nt_assert")
  /\ UNCHANGED << environment, registers, vmx_state, regions, tables, ret,
                  result, trace, handed, runtime, lifecycle >>

\* set_vmclear going on to VMPTRLD whatever VMCLEAR answered
set_vmclear_IgnoresFailure(c) ==
  /\ pc[c] = "set_vmclear"
  /\ \E ok \in Outcomes(c, local[c].vmcs_phys, Revision(msr[c].IA32_VMX_BASIC)) :
       /\ Log(c, "vmclear", ok)
       /\ vmcs_launch' = [vmcs_launch EXCEPT ![c] = IF ok THEN "clear" ELSE @]
       /\ current_vmcs' = [current_vmcs EXCEPT ![c] =
                             IF ok /\ @ = local[c].vmcs_phys THEN NoVmcs ELSE @]
       /\ Goto(c, "set_vmptrld")
       /\ UNCHANGED << ret, after_call >>
  /\ Hand(c, "vmclear", local[c].vmcs_phys)
  /\ UNCHANGED << environment, registers, vmx_mode, vmcs_fields, regions, tables,
                  local, result, runtime, calls >>

\* if (!vmx_vmclear(vmcs_phys)) return false
set_vmclear(c) ==
  /\ pc[c] = "set_vmclear"
  /\ \E ok \in Outcomes(c, local[c].vmcs_phys, Revision(msr[c].IA32_VMX_BASIC)) :
       /\ Log(c, "vmclear", ok)
       /\ IF ok
            THEN /\ vmcs_launch' = [vmcs_launch EXCEPT ![c] = "clear"]
                 /\ current_vmcs' = [current_vmcs EXCEPT ![c] =
                                       IF @ = local[c].vmcs_phys THEN NoVmcs ELSE @]
                 /\ Goto(c, "set_vmptrld")
                 /\ UNCHANGED << ret, after_call >>
            ELSE /\ Return(c, FALSE, "virtualize_34")
                 /\ Left(c, FALSE, current_vmcs[c], vmcs_launch[c])
                 /\ UNCHANGED << vmcs_launch, current_vmcs >>
  /\ Hand(c, "vmclear", local[c].vmcs_phys)
  /\ UNCHANGED << environment, registers, vmx_mode, vmcs_fields, regions, tables,
                  local, result, runtime, calls >>

\* set_vmptrld returning true without VMPTRLD
set_vmptrld_NotIssued(c) ==
  /\ pc[c] = "set_vmptrld"
  /\ Left(c, TRUE, current_vmcs[c], vmcs_launch[c])
  /\ Return(c, TRUE, "virtualize_34")
  /\ UNCHANGED << environment, registers, vmx_state, regions, tables, local, result,
                  trace, handed, runtime, calls >>

\* if (!vmx_vmptrld(vmcs_phys)) return false; return true
set_vmptrld(c) ==
  /\ pc[c] = "set_vmptrld"
  /\ \E ok \in Outcomes(c, local[c].vmcs_phys,
                        IF vmcs_[c].shadow_vmcs_indicator = 0
                          THEN vmcs_[c].revision_id ELSE -1) :
       /\ Log(c, "vmptrld", ok)
       /\ current_vmcs' = [current_vmcs EXCEPT ![c] = IF ok THEN local[c].vmcs_phys ELSE @]
       /\ Left(c, ok, IF ok THEN local[c].vmcs_phys ELSE current_vmcs[c], vmcs_launch[c])
       /\ Return(c, ok, "virtualize_34")
  /\ Hand(c, "vmptrld", local[c].vmcs_phys)
  /\ UNCHANGED << environment, registers, vmx_mode, vmcs_launch, vmcs_fields, regions,
                  tables, local, result, runtime, calls >>

set_vmcs_pointer(c) ==
  set_stamp(c) \/ set_phys(c) \/ set_vmclear(c) \/ set_vmptrld(c)

\* virtualize_34 going on whatever set_vmcs_pointer() returned
virtualize_34_IgnoresFailure(c) ==
  /\ pc[c] = "virtualize_34"
  /\ Goto(c, "prepare_external_structures")
  /\ UNCHANGED << environment, registers, vmx_state, regions, tables, local, ret,
                  result, trace, handed, runtime, lifecycle >>

\* if (!set_vmcs_pointer()) { vmx_vmxoff(); return false; }
virtualize_34(c) ==
  /\ pc[c] = "virtualize_34"
  /\ IF ret[c] THEN Goto(c, "prepare_external_structures") ELSE Goto(c, "virtualize_36")
  /\ UNCHANGED << environment, registers, vmx_state, regions, tables, local, ret,
                  result, trace, handed, runtime, lifecycle >>

\* virtualize_36 returning false without VMXOFF
virtualize_36_NoVmxoff(c) ==
  /\ pc[c] = "virtualize_36"
  /\ ReturnFalse(c)
  /\ UNCHANGED << environment, registers, vmx_state, regions, tables, local, ret,
                  trace, handed, runtime, lifecycle >>

\* vmx_vmxoff(); return false
virtualize_36(c) ==
  /\ pc[c] = "virtualize_36"
  /\ vmx_vmxoff(c, ReturnFalse(c))
  /\ UNCHANGED << environment, registers, current_vmcs, vmcs_launch, vmcs_fields,
                  regions, tables, local, ret, handed, runtime, lifecycle >>

(***************************************************************************)
(* The rest of vcpu::virtualize                                            *)
(***************************************************************************)
\* prepare_external_structures with one MSR bitmap shared by all the objects
prepare_external_structures_Shared(c) ==
  /\ pc[c] = "prepare_external_structures"
  /\ msr_bitmap_' = [d \in Cores |-> "zero"]
  /\ host_tss_' = [host_tss_ EXCEPT ![c] = "zero"]
  /\ host_idt_' = [host_idt_ EXCEPT ![c] = "prepared"]
  /\ host_gdt_' = [host_gdt_ EXCEPT ![c] = [content |-> "prepared", tss |-> vaddr[c].host_tss_]]
  /\ Log(c, "prepare_external_structures", TRUE)
  /\ Goto(c, "write_vmcs_ctrl_fields")
  /\ UNCHANGED << environment, registers, vmx_state, regions, local, ret,
                  result, handed, runtime, lifecycle >>

\* memset of the MSR bitmap and of the TSS, prepare_host_idt, prepare_host_gdt
prepare_external_structures(c) ==
  /\ pc[c] = "prepare_external_structures"
  /\ msr_bitmap_' = [msr_bitmap_ EXCEPT ![c] = "zero"]
  /\ host_tss_' = [host_tss_ EXCEPT ![c] = "zero"]
  /\ host_idt_' = [host_idt_ EXCEPT ![c] = "prepared"]
  /\ host_gdt_' = [host_gdt_ EXCEPT ![c] = [content |-> "prepared", tss |-> vaddr[c].host_tss_]]
  /\ Log(c, "prepare_external_structures", TRUE)
  /\ Goto(c, "write_vmcs_ctrl_fields")
  /\ UNCHANGED << environment, registers, vmx_state, regions, local, ret,
                  result, handed, runtime, lifecycle >>

write_vmcs_ctrl_fields(c) ==
  /\ pc[c] = "write_vmcs_ctrl_fields"
  /\ \E ndebug \in BOOLEAN : WriteAll(c, CtrlWrites(phys[c].msr_bitmap_, ndebug))
  /\ Hand(c, "msr_bitmap", phys[c].msr_bitmap_)
  /\ Log(c, "write_vmcs_ctrl_fields", current_vmcs[c] = phys[c].vmcs_)
  /\ Goto(c, "write_vmcs_host_fields")
  /\ UNCHANGED << environment, registers, vmx_mode, current_vmcs, vmcs_launch, regions,
                  tables, local, ret, result, runtime, lifecycle >>

write_vmcs_host_fields(c) ==
  /\ pc[c] = "write_vmcs_host_fields"
  /\ WriteAll(c, HostWrites(cr0[c], cr4[c], vaddr[c]))
  /\ Log(c, "write_vmcs_host_fields", current_vmcs[c] = phys[c].vmcs_)
  /\ Goto(c, "write_vmcs_guest_fields")
  /\ UNCHANGED << environment, registers, vmx_mode, current_vmcs, vmcs_launch, regions,
                  tables, local, ret, result, handed, runtime, lifecycle >>

\* __readeflags()
readeflags(c) == SetBit(GuestEnv.rflags, 9, IF rflags_if[c] THEN 1 ELSE 0)

write_vmcs_guest_fields(c) ==
  /\ pc[c] = "write_vmcs_guest_fields"
  /\ WriteAll(c, GuestWrites(cr0[c], cr4[c], readeflags(c)))
  /\ Log(c, "write_vmcs_guest_fields", current_vmcs[c] = phys[c].vmcs_)
  /\ Goto(c, "vm_launch")
  /\ UNCHANGED << environment, registers, vmx_mode, current_vmcs, vmcs_launch, regions,
                  tables, local, ret, result, handed, runtime, lifecycle >>

\* __vm_launch(): sets the guest RSP and RIP to the point of the call, then
\* VMLAUNCH.  A failed launch leaves the core in root operation and the error
\* number in the VM-instruction error field
vm_launch(c) ==
  /\ pc[c] = "vm_launch"
  /\ \E ok \in (IF current_vmcs[c] = phys[c].vmcs_ /\ vmcs_launch[c] = "clear"
                  THEN {TRUE, FALSE} ELSE {FALSE}) :
       /\ Log(c, "vm_launch", ok)
       /\ WriteAll(c, << << "VMCS_GUEST_RSP", GuestEnv.rsp >>,
                         << "VMCS_GUEST_RIP", Trampoline.vm_launch >> >>
                      \o (IF ok THEN << >> ELSE << << "VMCS_VM_INSTRUCTION_ERROR", 7 >> >>))
       /\ vmx_mode' = [vmx_mode EXCEPT ![c] = IF ok THEN "non_root" ELSE @]
       /\ vmcs_launch' = [vmcs_launch EXCEPT ![c] = IF ok THEN "launched" ELSE @]
       /\ Return(c, ok, IF ok THEN "virtualize_61" ELSE "virtualize_54")
  /\ UNCHANGED << environment, registers, current_vmcs, regions, tables, local,
                  result, handed, runtime, lifecycle >>

\* virtualize_54 with the VMXOFF moved ahead of the read of the error
virtualize_54_AfterVmxoff(c) ==
  /\ pc[c] = "virtualize_54"
  /\ vmx_mode' = [vmx_mode EXCEPT ![c] = "off"]
  /\ trace' = [trace EXCEPT ![c] =
                 @ \o << [op |-> "vmxoff", ok |-> vmx_mode[c] = "root"],
                         [op |-> "vmread_instruction_error", ok |-> FALSE] >>]
  /\ Goto(c, "virtualize_57")
  /\ UNCHANGED << environment, registers, current_vmcs, vmcs_launch, vmcs_fields,
                  regions, tables, local, ret, result, handed, runtime, lifecycle >>

\* DbgPrint(..., vmx_vmread(VMCS_VM_INSTRUCTION_ERROR))
virtualize_54(c) ==
  /\ pc[c] = "virtualize_54"
  /\ Log(c, "vmread_instruction_error",
         vmx_mode[c] = "root" /\ current_vmcs[c] = phys[c].vmcs_)
  /\ Goto(c, "virtualize_57")
  /\ UNCHANGED << environment, registers, vmx_state, regions, tables, local, ret,
                  result, handed, runtime, lifecycle >>

\* virtualize_57 returning false without VMXOFF
virtualize_57_NoVmxoff(c) ==
  /\ pc[c] = "virtualize_57"
  /\ ReturnFalse(c)
  /\ UNCHANGED << environment, registers, vmx_state, regions, tables, local, ret,
                  trace, handed, runtime, lifecycle >>

\* virtualize_57 with a rollback that also clears CR4.VMXE
virtualize_57_ClearsVmxe(c) ==
  /\ pc[c] = "virtualize_57"
  /\ vmx_vmxoff(c, ReturnFalse(c))
  /\ cr4' = [cr4 EXCEPT ![c] = @ \ CR4_VMX_ENABLE_FLAG]
  /\ UNCHANGED << environment, cr0, rflags_if, current_vmcs, vmcs_launch, vmcs_fields,
                  regions, tables, local, ret, handed, runtime, lifecycle >>

\* vmx_vmxoff(); return false
virtualize_57(c) ==
  /\ pc[c] = "virtualize_57"
  /\ vmx_vmxoff(c, ReturnFalse(c))
  /\ UNCHANGED << environment, registers, current_vmcs, vmcs_launch, vmcs_fields,
                  regions, tables, local, ret, handed, runtime, lifecycle >>

\* return true: the caller goes on as the guest
virtualize_61(c) ==
  /\ pc[c] = "virtualize_61"
  /\ result' = [result EXCEPT ![c] = "true"]
  /\ Goto(c, "guest")
  /\ UNCHANGED << environment, registers, vmx_state, regions, tables, local, ret,
                  trace, handed, runtime, lifecycle >>

(***************************************************************************)
(* vcpu::handle_vm_exit                                                    *)
(***************************************************************************)
VMX_EXIT_REASON_EXCEPTION_OR_NMI == 0
VMX_EXIT_REASON_NMI_WINDOW == 8
VMX_EXIT_REASON_EXECUTE_CPUID == 10
VMX_EXIT_REASON_MOV_CR == 28
VMX_EXIT_REASON_EXECUTE_RDMSR == 31
VMX_EXIT_REASON_EXECUTE_WRMSR == 32

\* the exit reasons the hardware reports in the model: the six the dispatcher
\* knows, with and without bits above the basic reason, and others
ExitReasonValues ==
  { {}, {3}, {1, 3}, {2, 3, 4}, {0, 1, 2, 3, 4}, {5},     \* 0, 8, 10, 28, 31, 32
    {0}, {4, 5},                                         \* 1, 48
    {1, 3, 27}, {0, 5, 31}, {2, 3, 4, 16} }              \* 10 | bit 27, 33 | bit 31, 28 | bit 16

\* static_cast<uint32_t>(value)
Uint32(value) == {b \in value : b < 32}

\* BasicExitReason reaching above bit 15, into the reserved and flag bits
BasicExitReason_UpperBits(flags) == Field(flags, 0, 27)

\* exit_reason.basic_exit_reason
BasicExitReason(flags) == Field(flags, 0, 15)

\* Switch with the break of the RDMSR case missing
Switch_FallThrough(basic) ==
  CASE basic = VMX_EXIT_REASON_MOV_CR -> [handlers |-> << "handle_mov_cr" >>, fatal |-> FALSE]
    [] basic = VMX_EXIT_REASON_EXECUTE_CPUID -> [handlers |-> << "emulate_cpuid" >>, fatal |-> FALSE]
    [] basic = VMX_EXIT_REASON_EXECUTE_RDMSR ->
         [handlers |-> << "emulate_rdmsr", "emulate_wrmsr" >>, fatal |-> FALSE]
    [] basic = VMX_EXIT_REASON_EXECUTE_WRMSR -> [handlers |-> << "emulate_wrmsr" >>, fatal |-> FALSE]
    [] basic = VMX_EXIT_REASON_EXCEPTION_OR_NMI ->
         [handlers |-> << "handle_exception_or_nmi" >>, fatal |-> FALSE]
    [] basic = VMX_EXIT_REASON_NMI_WINDOW -> [handlers |-> << "handle_nmi_window" >>, fatal |-> FALSE]
    [] OTHER -> [handlers |-> << >>, fatal |-> TRUE]

\* the switch of handle_vm_exit: the handlers it calls, in order, and whether
\* it reaches the default branch
Switch(basic) ==
  CASE basic = VMX_EXIT_REASON_MOV_CR -> [handlers |-> << "handle_mov_cr" >>, fatal |-> FALSE]
    [] basic = VMX_EXIT_REASON_EXECUTE_CPUID -> [handlers |-> << "emulate_cpuid" >>, fatal |-> FALSE]
    [] basic = VMX_EXIT_REASON_EXECUTE_RDMSR -> [handlers |-> << "emulate_rdmsr" >>, fatal |-> FALSE]
    [] basic = VMX_EXIT_REASON_EXECUTE_WRMSR -> [handlers |-> << "emulate_wrmsr" >>, fatal |-> FALSE]
    [] basic = VMX_EXIT_REASON_EXCEPTION_OR_NMI ->
         [handlers |-> << "handle_exception_or_nmi" >>, fatal |-> FALSE]
    [] basic = VMX_EXIT_REASON_NMI_WINDOW -> [handlers |-> << "handle_nmi_window" >>, fatal |-> FALSE]
    [] OTHER -> [handlers |-> << >>, fatal |-> TRUE]

\* the hardware leaves the guest: the exit reason is stored in the VMCS and
\* __vm_exit runs in root operation
vm_exit(c) ==
  /\ pc[c] = "guest"
  /\ \E reason \in ExitReasonValues : WriteAll(c, << << "VMCS_EXIT_REASON", reason >> >>)
  /\ vmx_mode' = [vmx_mode EXCEPT ![c] = "root"]
  /\ Goto(c, "handle_vm_exit")
  /\ UNCHANGED << environment, registers, current_vmcs, vmcs_launch, regions, tables,
                  local, ret, result, trace, handed, runtime, lifecycle >>

handle_vm_exit(c) ==
  /\ pc[c] = "handle_vm_exit"
  /\ LET flags == Uint32(vmcs_fields[c]["VMCS_EXIT_REASON"])
         taken == Switch(BasicExitReason(flags))
     IN dispatched' = [dispatched EXCEPT ![c] =
          [reason |-> flags, handlers |-> taken.handlers, fatal |-> taken.fatal]]
  /\ Goto(c, "vm_resume")
  /\ UNCHANGED << environment, registers, vmx_state, regions, tables, local, ret,
                  result, trace, handed, frame, lifecycle >>

\* __vm_exit resumes the guest when the dispatcher returns
vm_resume(c) ==
  /\ pc[c] = "vm_resume"
  /\ vmx_mode' = [vmx_mode EXCEPT ![c] = "non_root"]
  /\ dispatched' = [dispatched EXCEPT ![c] = NoDispatch]
  /\ Goto(c, "guest")
  /\ UNCHANGED << environment, registers, current_vmcs, vmcs_launch, vmcs_fields,
                  regions, tables, local, ret, result, trace, handed, frame, lifecycle >>

(***************************************************************************)
(* vcpu::handle_host_interrupt                                             *)
(***************************************************************************)
\* the vectors of the interrupts delivered to the host in the model
Vectors == {nmi, 3, 14}

read_ctrl_proc_based(c) == vmcs_fields[c]["VMCS_CTRL_PROCESSOR_BASED_VM_EXECUTION_CONTROLS"]

write_ctrl_proc_based(c, ctrl) ==
  WriteAll(c, << << "VMCS_CTRL_PROCESSOR_BASED_VM_EXECUTION_CONTROLS", ctrl >> >>)

\* Bridge with ctrl.nmi_window_exiting ^= 1 in place of = 1
Bridge_Toggle(c, vector) ==
  IF vector = nmi
    THEN write_ctrl_proc_based(c, SetBit(read_ctrl_proc_based(c), NMI_WINDOW_EXITING_BIT,
                                         1 - Bit(read_ctrl_proc_based(c), NMI_WINDOW_EXITING_BIT)))
    ELSE UNCHANGED vmcs_fields

\* Bridge writing a fresh control word with only nmi_window_exiting set
Bridge_Overwrite(c, vector) ==
  IF vector = nmi
    THEN write_ctrl_proc_based(c, {NMI_WINDOW_EXITING_BIT})
    ELSE UNCHANGED vmcs_fields

\* the body of the switch on frame->vector
Bridge(c, vector) ==
  IF vector = nmi
    THEN write_ctrl_proc_based(c, SetBit(read_ctrl_proc_based(c), NMI_WINDOW_EXITING_BIT, 1))
    ELSE UNCHANGED vmcs_fields

\* an interrupt taken by the host while it handles a vm-exit
handle_host_interrupt(c) ==
  /\ pc[c] \in {"handle_vm_exit", "vm_resume"}
  /\ \E vector \in Vectors :
       /\ frame' = [frame EXCEPT ![c] = [vector |-> vector,
                                         ctrl_before |-> read_ctrl_proc_based(c),
                                         resume |-> pc[c]]]
       /\ Bridge(c, vector)
  /\ Goto(c, "interrupt_return")
  /\ UNCHANGED << environment, registers, vmx_mode, current_vmcs, vmcs_launch, regions,
                  tables, local, ret, result, trace, handed, dispatched, lifecycle >>

\* the interrupt path returns to the interrupted code
interrupt_return(c) ==
  /\ pc[c] = "interrupt_return"
  /\ Goto(c, frame[c].resume)
  /\ frame' = [frame EXCEPT ![c] = NoFrame]
  /\ UNCHANGED << environment, registers, vmx_state, regions, tables, local, ret,
                  result, trace, handed, dispatched, lifecycle >>

(***************************************************************************)
(* The specification: core 1 runs virtualize() and then serves vm-exits    *)
(***************************************************************************)
bring_up(c) ==
  \/ virtualize(c) \/ enable_vmx_operation(c) \/ virtualize_24(c)
  \/ enter_vmx_operation(c) \/ virtualize_29(c)
  \/ set_vmcs_pointer(c) \/ virtualize_34(c) \/ virtualize_36(c)
  \/ prepare_external_structures(c)
  \/ write_vmcs_ctrl_fields(c) \/ write_vmcs_host_fields(c) \/ write_vmcs_guest_fields(c)
  \/ vm_launch(c) \/ virtualize_54(c) \/ virtualize_57(c) \/ virtualize_61(c)

serve(c) ==
  \/ vm_exit(c) \/ handle_vm_exit(c) \/ vm_resume(c)
  \/ handle_host_interrupt(c) \/ interrupt_return(c)

Next == \E c \in Cores : bring_up(c) \/ serve(c)

Spec == Init /\ [][Next]_vars

(***************************************************************************)
(* What is stated of traces                                                *)
(***************************************************************************)
Did(c, op) == \E i \in DOMAIN trace[c] : trace[c][i].op = op
Succeeded(c, op) == \E i \in DOMAIN trace[c] : trace[c][i].op = op /\ trace[c][i].ok
Failed(c, op) == \E i \in DOMAIN trace[c] : trace[c][i].op = op /\ ~trace[c][i].ok
Times(c, op) == Cardinality({i \in DOMAIN trace[c] : trace[c][i].op = op})

\* the feature gate of the core fails: the CPUID VMX bit is clear, or the
\* feature-control register lacks the lock bit or the VMX-outside-SMX bit
GateFails(c) ==
  \/ 5 \notin cpuid_1_ecx[c]
  \/ 0 \notin msr[c].IA32_FEATURE_CONTROL
  \/ 2 \notin msr[c].IA32_FEATURE_CONTROL

VmxInstructions == { "vmxon", "invept", "vmclear", "vmptrld", "write_vmcs_ctrl_fields",
                     "write_vmcs_host_fields", "write_vmcs_guest_fields", "vm_launch",
                     "vmread_instruction_error", "vmxoff" }

\* C1: when the feature gate fails, enable_vmx_operation() returns false
\* with CR0, CR4 and the interrupt flag as they were on entry, and
\* virtualize() returns false having executed no VMXON, VMCLEAR, VMPTRLD,
\* VMCS field write, launch or VMXOFF.
C1_GateFailsClosed ==
  \A c \in Cores : GateFails(c) =>
    /\ cr0[c] = at_entry[c].cr0
    /\ cr4[c] = at_entry[c].cr4
    /\ rflags_if[c] = at_entry[c].rflags_if
    /\ pc[c] = "virtualize_24" => ~ret[c]
    /\ result[c] # "true"
    /\ pc[c] \in {"parked", "virtualize", "enable_cpuid", "enable_feature_control",
                  "virtualize_24", "returned"}
    /\ \A i \in DOMAIN trace[c] : trace[c][i].op \notin VmxInstructions
    /\ handed[c] = << >>
    /\ vmx_mode[c] = "off" /\ current_vmcs[c] = NoVmcs /\ vmcs_fields[c] = ZeroFields

\* virtualize() has returned false on a core whose CPUID lacks the VMX bit
C1_Witness ==
  /\ pc[1] = "returned" /\ result[1] = "false"
  /\ 5 \notin cpuid_1_ecx[1]
  /\ trace[1] = << [op |-> "enable_vmx_operation", ok |-> FALSE] >>

\* C2: when the gate, VMXON, VMCLEAR and VMPTRLD succeed, the three field
\* groups are written and the launch trampoline reports failure,
\* virtualize() executes VMXOFF and returns false.
C2_LaunchFailureRollsBack ==
  \A c \in Cores : Failed(c, "vm_launch") =>
    /\ Succeeded(c, "enable_vmx_operation") /\ Succeeded(c, "vmxon")
    /\ Succeeded(c, "vmclear") /\ Succeeded(c, "vmptrld")
    /\ Did(c, "write_vmcs_guest_fields")
    /\ pc[c] \in {"virtualize_54", "virtualize_57", "returned"}
    /\ pc[c] = "returned" =>
         /\ result[c] = "false"
         /\ trace[c][Len(trace[c])] = [op |-> "vmxoff", ok |-> TRUE]
         /\ vmx_mode[c] = "off"

C2_Witness ==
  pc[1] = "returned" /\ Failed(1, "vm_launch") /\ Did(1, "vmxoff")

\* C3: whatever the outcomes of the gate, VMXON, VMCLEAR, VMPTRLD and launch,
\* when virtualize() has returned false the core is not in VMX root
\* operation; VMXOFF is executed at most once, in VMX root operation, and
\* only after a VMXON of the same call succeeded.
C3_FalseLeavesRootOperation ==
  \A c \in Cores :
    /\ result[c] = "false" => vmx_mode[c] # "root"
    /\ Times(c, "vmxoff") <= 1
    /\ pc[c] # "invalid_opcode"
    /\ \A i \in DOMAIN trace[c] : trace[c][i].op = "vmxoff" =>
         /\ trace[c][i].ok
         /\ \E j \in 1..(i - 1) : trace[c][j] = [op |-> "vmxon", ok |-> TRUE]

\* virtualize() has returned false after VMXON succeeded and VMCLEAR failed
C3_Witness ==
  /\ pc[1] = "returned" /\ result[1] = "false"
  /\ Succeeded(1, "vmxon") /\ Failed(1, "vmclear") /\ Did(1, "vmxoff")

\* C4: when enable_vmx_operation() returns true, CR4 has the VMX-enable bit
\* and CR0 and CR4 satisfy the fixed-bit masks the hardware reports: every
\* bit of FIXED0 is set and every bit clear in FIXED1 is clear.
C4_FixedBitsHold ==
  \A c \in Cores : (pc[c] = "virtualize_24" /\ ret[c]) =>
    /\ 13 \in cr4[c]
    /\ msr[c].IA32_VMX_CR0_FIXED0 \subseteq cr0[c]
    /\ cr0[c] \subseteq msr[c].IA32_VMX_CR0_FIXED1
    /\ msr[c].IA32_VMX_CR4_FIXED0 \subseteq cr4[c]
    /\ cr4[c] \subseteq msr[c].IA32_VMX_CR4_FIXED1

\* the gate has returned true on a core that entered without CR4.VMXE, with a
\* CR0 that lacked a FIXED0 bit and held a bit FIXED1 forbids
C4_Witness ==
  /\ pc[1] = "virtualize_24" /\ ret[1]
  /\ 13 \notin at_entry[1].cr4 /\ 13 \notin msr[1].IA32_VMX_CR4_FIXED0
  /\ ~(msr[1].IA32_VMX_CR0_FIXED0 \subseteq at_entry[1].cr0)
  /\ ~(at_entry[1].cr0 \subseteq msr[1].IA32_VMX_CR0_FIXED1)

\* the revision identifier the core reports: bits 0..30 of IA32_VMX_BASIC
HardwareRevision(c) == BitsToNat({b \in msr[c].IA32_VMX_BASIC : b < 31})

\* C5: when VMXON is issued the VMXON region's revision identifier is the
\* one the hardware reports, and when VMCLEAR and VMPTRLD are issued the
\* VMCS region's revision identifier is that same one and its shadow
\* indicator is 0.
C5_RevisionStampedBeforeUse ==
  \A c \in Cores :
    /\ pc[c] = "enter_vmxon" => vmxon_[c].revision_id = HardwareRevision(c)
    /\ pc[c] \in {"set_vmclear", "set_vmptrld"} =>
         /\ vmcs_[c].revision_id = HardwareRevision(c)
         /\ vmcs_[c].shadow_vmcs_indicator = 0

\* VMPTRLD is about to be issued on a VMCS region that held another revision
\* identifier and a shadow indicator of 1 when virtualize() was entered
C5_Witness ==
  /\ pc[1] = "set_vmptrld" /\ Succeeded(1, "vmxon") /\ Succeeded(1, "vmclear")
  /\ HardwareRevision(1) = 4 /\ vmcs_[1].revision_id = 4

\* the basic exit reason of an exit-reason value: its low 16 bits
LowWord(reason) == BitsToNat({b \in reason : b < 16})

\* C6: for every exit reason, one invocation of handle_vm_exit invokes
\* exactly the one handler that matches the basic exit reason (28 MOV_CR, 10
\* CPUID, 31 RDMSR, 32 WRMSR, 0 exception or NMI, 8 NMI window), and reaches
\* the fatal default branch, invoking no handler, exactly when the basic
\* reason is none of the six.
C6_DispatchByBasicReason ==
  \A c \in Cores : pc[c] = "vm_resume" =>
    LET d == dispatched[c]
        basic == LowWord(vmcs_fields[c]["VMCS_EXIT_REASON"])
    IN /\ basic = 28 => d.handlers = << "handle_mov_cr" >>
       /\ basic = 10 => d.handlers = << "emulate_cpuid" >>
       /\ basic = 31 => d.handlers = << "emulate_rdmsr" >>
       /\ basic = 32 => d.handlers = << "emulate_wrmsr" >>
       /\ basic = 0 => d.handlers = << "handle_exception_or_nmi" >>
       /\ basic = 8 => d.handlers = << "handle_nmi_window" >>
       /\ d.fatal <=> basic \notin {28, 10, 31, 32, 0, 8}
       /\ d.fatal => d.handlers = << >>
       /\ ~d.fatal => Len(d.handlers) = 1

\* the dispatcher has routed a CPUID exit whose exit reason has a bit set
\* above the basic reason
C6_Witness ==
  /\ pc[1] = "vm_resume"
  /\ dispatched[1].handlers = << "emulate_cpuid" >>
  /\ 27 \in vmcs_fields[1]["VMCS_EXIT_REASON"]

\* C7: after handle_host_interrupt is called with the NMI vector, the
\* processor-based controls of the current VMCS have NMI-window exiting
\* set, whatever it was before; called with another vector, it leaves the
\* processor-based controls as they were.
C7_NmiSetsWindowExiting ==
  \A c \in Cores : pc[c] = "interrupt_return" =>
    LET ctrl == vmcs_fields[c]["VMCS_CTRL_PROCESSOR_BASED_VM_EXECUTION_CONTROLS"]
    IN /\ frame[c].vector = 2 => 22 \in ctrl
       /\ frame[c].vector # 2 => ctrl = frame[c].ctrl_before

\* a host NMI has been handled while NMI-window exiting was already set
C7_Witness ==
  /\ pc[1] = "interrupt_return" /\ frame[1].vector = 2
  /\ 22 \in frame[1].ctrl_before

\* C9: every physical address handed to the hardware (VMXON, VMCLEAR,
\* VMPTRLD, the MSR-bitmap address field) is a multiple of 4096: a region
\* that is not so aligned is caught by a check before its address is used.
C9_AlignedOrCaught ==
  \A c \in Cores : \A i \in DOMAIN handed[c] : handed[c][i].address % 4096 = 0

MajorSteps == << "enable_vmx_operation", "vmxon", "vmclear", "vmptrld",
                 "prepare_external_structures", "write_vmcs_ctrl_fields",
                 "write_vmcs_host_fields", "write_vmcs_guest_fields", "vm_launch" >>

IsMajorStep(e) == \E k \in DOMAIN MajorSteps : MajorSteps[k] = e.op

FieldWrites == { "write_vmcs_ctrl_fields", "write_vmcs_host_fields",
                 "write_vmcs_guest_fields" }

\* C10: virtualize() runs its steps in the order gate, VMXON, VMCLEAR,
\* VMPTRLD, prepare_external_structures, control fields, host fields, guest
\* fields, launch, and stops at the first step that fails: no step follows
\* a failed one (only the read of the instruction error and VMXOFF do), no
\* VMCS field is written unless VMPTRLD succeeded, and virtualize() returns
\* true exactly when the gate, VMXON, VMCLEAR, VMPTRLD and the launch
\* succeeded.
C10_OrderedAndAbortsOnFailure ==
  \A c \in Cores :
    LET steps == SelectSeq(trace[c], IsMajorStep)
        all_ok == /\ Succeeded(c, "enable_vmx_operation") /\ Succeeded(c, "vmxon")
                  /\ Succeeded(c, "vmclear") /\ Succeeded(c, "vmptrld")
                  /\ Succeeded(c, "vm_launch")
    IN /\ Len(steps) <= Len(MajorSteps)
       /\ \A i \in DOMAIN steps : steps[i].op = MajorSteps[i]
       /\ \A i \in DOMAIN steps : i < Len(steps) => steps[i].ok
       /\ \A i, j \in DOMAIN trace[c] :
            (i < j /\ ~trace[c][i].ok) =>
               trace[c][j].op \in {"vmread_instruction_error", "vmxoff"}
       /\ \A i \in DOMAIN trace[c] : trace[c][i].op \in FieldWrites => trace[c][i].ok
       /\ vmcs_fields[c] # ZeroFields => Succeeded(c, "vmptrld")
       /\ result[c] = "true" => all_ok
       /\ (result[c] # "none" /\ all_ok) => result[c] = "true"

\* virtualize() has returned true
C10_Witness ==
  /\ result[1] = "true"
  /\ Len(SelectSeq(trace[1], IsMajorStep)) = Len(MajorSteps)

(***************************************************************************)
(* set_vmcs_pointer() invoked again and again, on a core in VMX root        *)
(* operation whose VMCS is not current                                     *)
(***************************************************************************)
MaxCalls == 2

\* what the fields of a VMCS region may hold before the call
FieldContents == { ZeroFields, [f \in AllFields |-> IF f \in FlagFields THEN {3} ELSE 5] }

InitLifecycle ==
  /\ \E basic \in VmxBasicValues, h \in StaleHeaders, a \in {0, 8} :
       /\ msr = [c \in Cores |-> [Parked(c).msr EXCEPT !.IA32_VMX_BASIC =
                                    IF c = 1 THEN basic ELSE @]]
       /\ vmcs_ = [c \in Cores |->
                     IF c = 1 THEN [revision_id |-> h.revision_id,
                                    shadow_vmcs_indicator |-> h.flag]
                     ELSE [revision_id |-> 0, shadow_vmcs_indicator |-> 0]]
       /\ vmxon_ = [c \in Cores |->
                      [revision_id |-> IF c = 1 THEN Revision(basic) ELSE 0,
                       must_be_zero |-> 0]]
       /\ phys = [c \in Cores |-> [Parked(c).phys EXCEPT !.vmcs_ =
                                     IF c = 1 THEN @ + a ELSE @]]
  /\ vmcs_fields \in [Cores -> FieldContents]
  /\ vmcs_fields[2] = ZeroFields
  /\ vmcs_launch \in [Cores -> {"undefined", "clear"}]
  /\ vmcs_launch[2] = "undefined"
  /\ pc = [c \in Cores |-> IF c = 1 THEN "set_stamp" ELSE "parked"]
  /\ vmx_mode = [c \in Cores |-> IF c = 1 THEN "root" ELSE "off"]
  /\ current_vmcs = [c \in Cores |-> NoVmcs]
  /\ cpuid_1_ecx = [c \in Cores |-> {0, CPUID_VMX_BIT}]
  /\ cr0 = [c \in Cores |-> {0, 5, 31}]
  /\ cr4 = [c \in Cores |-> {5, CR4_VMX_ENABLE_BIT}]
  /\ at_entry = [c \in Cores |-> [cr0 |-> cr0[c], cr4 |-> cr4[c], rflags_if |-> TRUE]]
  /\ rflags_if = [c \in Cores |-> TRUE]
  /\ vaddr = [c \in Cores |-> VAddr(c)]
  /\ msr_bitmap_ = [c \in Cores |-> "garbage"]
  /\ host_tss_ = [c \in Cores |-> "garbage"]
  /\ host_idt_ = [c \in Cores |-> "garbage"]
  /\ host_gdt_ = [c \in Cores |-> [content |-> "garbage", tss |-> 0]]
  /\ local = [c \in Cores |-> NoLocals]
  /\ ret = [c \in Cores |-> FALSE]
  /\ result = [c \in Cores |-> "none"]
  /\ trace = [c \in Cores |-> << >>]
  /\ handed = [c \in Cores |-> << >>]
  /\ dispatched = [c \in Cores |-> NoDispatch]
  /\ frame = [c \in Cores |-> NoFrame]
  /\ calls = [c \in Cores |-> 0]
  /\ after_call = [c \in Cores |-> << >>]

\* the caller invokes set_vmcs_pointer() once more
call_again(c) ==
  /\ pc[c] = "virtualize_34"
  /\ calls[c] < MaxCalls
  /\ Goto(c, "set_stamp")
  /\ UNCHANGED << environment, registers, vmx_state, regions, tables, local, ret,
                  result, trace, handed, runtime, lifecycle >>

NextLifecycle == \E c \in Cores : set_vmcs_pointer(c) \/ call_again(c)

SpecLifecycle == InitLifecycle /\ [][NextLifecycle]_vars

\* C8: two successive invocations of set_vmcs_pointer() that both return
\* true, the first on a VMCS that is not current, leave the VMCS current on
\* the core, with the revision identifier, the shadow indicator, the launch
\* state and the field values the first invocation left.
C8_SetVmcsPointerIdempotent ==
  \A c \in Cores : \A i \in DOMAIN after_call[c] :
    after_call[c][i].ret =>
      /\ after_call[c][i].current = phys[c].vmcs_
      /\ after_call[c][i].revision_id = HardwareRevision(c)
      /\ after_call[c][i].shadow_vmcs_indicator = 0
      /\ (i > 1 /\ after_call[c][i - 1].ret) => after_call[c][i] = after_call[c][i - 1]
      /\ pc[c] = "virtualize_34" /\ i = Len(after_call[c]) =>
           /\ current_vmcs[c] = after_call[c][i].current
           /\ vmcs_fields[c] = after_call[c][i].fields
           /\ vmcs_launch[c] = after_call[c][i].launch

\* set_vmcs_pointer() has returned true twice in succession on a VMCS whose
\* fields held values
C8_Witness ==
  /\ pc[1] = "virtualize_34" /\ Len(after_call[1]) = 2
  /\ after_call[1][1].ret /\ after_call[1][2].ret
  /\ vmcs_fields[1] # ZeroFields

(***************************************************************************)
(* enable_vmx_operation() with maskable interrupts arriving                *)
(***************************************************************************)
NextInterrupts ==
  \E c \in Cores : \/ virtualize(c) \/ enable_vmx_operation(c)
                   \/ maskable_interrupt(c) \/ isr_return(c)

SpecInterrupts == Init /\ [][NextInterrupts]_vars

\* the labels from __readcr0() up to _enable()
InterruptsOffLabels == { "enable_readcr0", "enable_readcr4", "enable_fixed",
                         "enable_writecr0", "enable_writecr4", "enable_enable" }

\* C11: in enable_vmx_operation() maskable interrupts are off from before
\* CR0 and CR4 are read until after both are written back, so a handler of a
\* maskable interrupt arriving at any point sees CR0 and CR4 either both as
\* they were at entry or both updated, never one of each; interrupts are on
\* again when the operation has returned true.
C11_InterruptsOffAcrossUpdate ==
  \A c \in Cores :
    LET old0 == at_entry[c].cr0
        old4 == at_entry[c].cr4
        new0 == (old0 \cup msr[c].IA32_VMX_CR0_FIXED0) \cap msr[c].IA32_VMX_CR0_FIXED1
        new4 == ((old4 \cup {CR4_VMX_ENABLE_BIT}) \cup msr[c].IA32_VMX_CR4_FIXED0)
                  \cap msr[c].IA32_VMX_CR4_FIXED1
    IN /\ pc[c] \in InterruptsOffLabels => ~rflags_if[c]
       /\ pc[c] = "isr" => << cr0[c], cr4[c] >> \in { << old0, old4 >>, << new0, new4 >> }
       /\ (pc[c] = "virtualize_24" /\ ret[c]) => rflags_if[c]

\* a maskable interrupt was taken right after enable_vmx_operation() returned
\* true, and its handler sees both registers updated
C11_Witness ==
  /\ pc[1] = "isr" /\ frame[1].resume = "virtualize_24" /\ ret[1]
  /\ cr0[1] # at_entry[1].cr0 /\ cr4[1] # at_entry[1].cr4

(***************************************************************************)
(* Two cores running virtualize(), each on its own object                  *)
(***************************************************************************)
\* a core about to run virtualize() on a processor that supports VMX
Running(c) ==
  [ pc |-> "virtualize", cpuid_1_ecx |-> {0, CPUID_VMX_BIT},
    msr |-> [ IA32_FEATURE_CONTROL |-> {FEATURE_CONTROL_LOCK_BIT,
                                        FEATURE_CONTROL_VMX_OUTSIDE_SMX_BIT},
              IA32_VMX_CR0_FIXED0 |-> {0, 5, 31},
              IA32_VMX_CR0_FIXED1 |-> {0, 1, 4, 5, 16, 30, 31},
              IA32_VMX_CR4_FIXED0 |-> {CR4_VMX_ENABLE_BIT},
              IA32_VMX_CR4_FIXED1 |-> {5, 7, CR4_VMX_ENABLE_BIT},
              IA32_VMX_BASIC |-> {0, 44} ],
    cr0 |-> IF c = 1 THEN {0, 4, 31} ELSE {0, 16, 30, 31},
    cr4 |-> IF c = 1 THEN {5} ELSE {5, 7, CR4_VMX_ENABLE_BIT},
    phys |-> [vmxon_ |-> VAddr(c).vmxon_, vmcs_ |-> VAddr(c).vmcs_,
              msr_bitmap_ |-> VAddr(c).msr_bitmap_],
    header |-> [revision_id |-> 9, flag |-> 1] ]

InitTwoCores ==
  /\ pc = [c \in Cores |-> Running(c).pc]
  /\ cpuid_1_ecx = [c \in Cores |-> Running(c).cpuid_1_ecx]
  /\ msr = [c \in Cores |-> Running(c).msr]
  /\ cr0 = [c \in Cores |-> Running(c).cr0]
  /\ cr4 = [c \in Cores |-> Running(c).cr4]
  /\ phys = [c \in Cores |-> Running(c).phys]
  /\ vmxon_ = [c \in Cores |-> [revision_id |-> Running(c).header.revision_id,
                                must_be_zero |-> Running(c).header.flag]]
  /\ vmcs_ = [c \in Cores |-> [revision_id |-> Running(c).header.revision_id,
                               shadow_vmcs_indicator |-> Running(c).header.flag]]
  /\ at_entry = [c \in Cores |-> [cr0 |-> cr0[c], cr4 |-> cr4[c], rflags_if |-> TRUE]]
  /\ rflags_if = [c \in Cores |-> TRUE]
  /\ vmx_mode = [c \in Cores |-> "off"]
  /\ current_vmcs = [c \in Cores |-> NoVmcs]
  /\ vaddr = [c \in Cores |-> VAddr(c)]
  /\ vmcs_launch = [c \in Cores |-> "undefined"]
  /\ vmcs_fields = [c \in Cores |-> ZeroFields]
  /\ msr_bitmap_ = [c \in Cores |-> "garbage"]
  /\ host_tss_ = [c \in Cores |-> "garbage"]
  /\ host_idt_ = [c \in Cores |-> "garbage"]
  /\ host_gdt_ = [c \in Cores |-> [content |-> "garbage", tss |-> 0]]
  /\ local = [c \in Cores |-> NoLocals]
  /\ ret = [c \in Cores |-> FALSE]
  /\ result = [c \in Cores |-> "none"]
  /\ trace = [c \in Cores |-> << >>]
  /\ handed = [c \in Cores |-> << >>]
  /\ dispatched = [c \in Cores |-> NoDispatch]
  /\ frame = [c \in Cores |-> NoFrame]
  /\ calls = [c \in Cores |-> 0]
  /\ after_call = [c \in Cores |-> << >>]

SpecTwoCores == InitTwoCores /\ [][Next]_vars

\* host_gdt_descriptor_count
host_gdt_descriptor_count == 4

\* the address lies within the vcpu object of core c
InObject(c, address) ==
  /\ VAddr(c).vmxon_ <= address
  /\ address < VAddr(c).host_gdt_ + host_gdt_descriptor_count * 8

\* the state of core d: what every variable holds for it
OfCore(d) ==
  << pc[d], cpuid_1_ecx[d], msr[d], cr0[d], cr4[d], rflags_if[d], vmx_mode[d],
     current_vmcs[d], phys[d], vaddr[d], vmxon_[d], vmcs_[d], vmcs_launch[d],
     vmcs_fields[d], msr_bitmap_[d], host_tss_[d], host_idt_[d], host_gdt_[d],
     local[d], ret[d], result[d], trace[d], handed[d], at_entry[d], dispatched[d],
     frame[d], calls[d], after_call[d] >>

\* the VMCS fields that hold an address of the object
AddressFields == { "VMCS_CTRL_MSR_BITMAP_ADDRESS", "VMCS_HOST_RSP",
                   "VMCS_HOST_TR_BASE", "VMCS_HOST_GDTR_BASE", "VMCS_HOST_IDTR_BASE" }

\* every address core c handed to the hardware or wrote into its VMCS lies in
\* its own object, and its current VMCS is its own
OwnAddresses(c) ==
  /\ \A i \in DOMAIN handed[c] : InObject(c, handed[c][i].address)
  /\ current_vmcs[c] \in {NoVmcs, phys[c].vmcs_}
  /\ \A f \in AddressFields :
       vmcs_fields[c][f] # 0 => InObject(c, vmcs_fields[c][f])
  /\ host_gdt_[c].tss # 0 => InObject(c, host_gdt_[c].tss)
  /\ \A d \in Cores \ {c}, a \in {phys[c].vmxon_, phys[c].vmcs_, phys[c].msr_bitmap_} :
       ~InObject(d, a)

\* C12: with two cores running virtualize() concurrently, each on its own
\* object, under any interleaving a step of one core (bring-up, exit
\* dispatch or interrupt bridge) changes only that core's regions, tables,
\* registers and VMCS and leaves all the state of the other core as it was,
\* and every address a core hands to the hardware or programs into its VMCS
\* lies in its own object.
C12_CoresDisjoint ==
  /\ [](\A c \in Cores : OwnAddresses(c))
  /\ [][\E c \in Cores : \A d \in Cores \ {c} : OfCore(d)' = OfCore(d)]_vars

\* one core serves an NMI from its exit handler while the other is still
\* programming its VMCS
C12_Witness ==
  /\ pc[1] = "interrupt_return" /\ frame[1].vector = nmi
  /\ pc[2] = "write_vmcs_host_fields" /\ current_vmcs[2] = phys[2].vmcs_
  /\ current_vmcs[1] = phys[1].vmcs_

\* enable_vmx_operation() has returned true on the core
GatePassed(c) == Succeeded(c, "enable_vmx_operation") \/ (pc[c] = "virtualize_24" /\ ret[c])

\* C13: once enable_vmx_operation() has returned true, CR0 and CR4 keep the
\* values it wrote for the rest of virtualize(): no later step and no failure
\* path, the VMXOFF rollback included, writes either register, so after a
\* virtualize() that failed past the gate CR4 still has the VMX-enable bit.
C13_ControlRegistersPersist ==
  \A c \in Cores :
    GatePassed(c) =>
      /\ cr0[c] = FixedCr0(at_entry[c].cr0, msr[c].IA32_VMX_CR0_FIXED0,
                           msr[c].IA32_VMX_CR0_FIXED1)
      /\ cr4[c] = FixedCr4(at_entry[c].cr4, msr[c].IA32_VMX_CR4_FIXED0,
                           msr[c].IA32_VMX_CR4_FIXED1)
      /\ \A i, j \in DOMAIN trace[c] :
           (trace[c][i].op = "enable_vmx_operation" /\ i < j) =>
             trace[c][j].op \notin {"writecr0", "writecr4"}
      /\ result[c] = "false" => CR4_VMX_ENABLE_BIT \in cr4[c]

\* virtualize() has failed at the launch and rolled back with VMXOFF on a
\* core that entered with CR4.VMXE clear
C13_Witness ==
  /\ result[1] = "false" /\ Succeeded(1, "enable_vmx_operation")
  /\ Failed(1, "vm_launch") /\ Succeeded(1, "vmxoff")
  /\ CR4_VMX_ENABLE_BIT \notin at_entry[1].cr4 /\ CR4_VMX_ENABLE_BIT \in cr4[1]

\* the position of the first entry of the trace for the operation, 0 if none
FirstOf(c, op) ==
  IF Did(c, op) THEN CHOOSE i \in DOMAIN trace[c] :
                       /\ trace[c][i].op = op
                       /\ \A j \in 1..(i - 1) : trace[c][j].op # op
  ELSE 0

\* what virtualize() does after set_vmcs_pointer() when that returned true
AfterPointerSteps == FieldWrites \cup {"prepare_external_structures", "vm_launch"}

\* C14: set_vmcs_pointer() issues VMCLEAR on the physical address of the
\* VMCS before VMPTRLD on the same address, does not issue VMPTRLD when
\* VMCLEAR fails, and returns true exactly when both succeeded; when it
\* returns false virtualize() executes VMXOFF and returns false, having
\* written no VMCS field, prepared no external structure and launched nothing.
C14_ClearThenLoad ==
  \A c \in Cores :
    /\ \A j \in DOMAIN handed[c] :
         handed[c][j].insn = "vmptrld" =>
           \E i \in 1..(j - 1) : /\ handed[c][i].insn = "vmclear"
                                 /\ handed[c][i].address = handed[c][j].address
                                 /\ handed[c][i].address = phys[c].vmcs_
    /\ Did(c, "vmptrld") =>
         Succeeded(c, "vmclear") /\ FirstOf(c, "vmclear") < FirstOf(c, "vmptrld")
    /\ pc[c] = "virtualize_34" =>
         (ret[c] <=> Succeeded(c, "vmclear") /\ Succeeded(c, "vmptrld"))
    /\ (Failed(c, "vmclear") \/ Failed(c, "vmptrld")) =>
         /\ \A op \in AfterPointerSteps : ~Did(c, op)
         /\ vmcs_fields[c] = ZeroFields
         /\ msr_bitmap_[c] = "garbage" /\ host_idt_[c] = "garbage"
         /\ result[c] # "true"
         /\ pc[c] = "returned" => result[c] = "false" /\ Succeeded(c, "vmxoff")

\* VMCLEAR succeeded, VMPTRLD failed, and virtualize() has returned false
\* after VMXOFF
C14_Witness ==
  /\ pc[1] = "returned" /\ result[1] = "false"
  /\ Succeeded(1, "vmclear") /\ Failed(1, "vmptrld") /\ Succeeded(1, "vmxoff")

\* C15: when the launch fails, virtualize() reads the VM-instruction-error
\* field while the core is still in VMX root operation with the VMCS
\* current, and only after that read executes VMXOFF.
C15_ErrorReadBeforeVmxoff ==
  \A c \in Cores :
    Failed(c, "vm_launch") =>
      /\ pc[c] = "virtualize_54" =>
           /\ vmx_mode[c] = "root" /\ current_vmcs[c] = phys[c].vmcs_
           /\ ~Did(c, "vmxoff") /\ ~Did(c, "vmread_instruction_error")
      /\ Did(c, "vmread_instruction_error") =>
           /\ Succeeded(c, "vmread_instruction_error")
           /\ Times(c, "vmread_instruction_error") = 1
           /\ FirstOf(c, "vm_launch") < FirstOf(c, "vmread_instruction_error")
      /\ Did(c, "vmxoff") =>
           /\ Did(c, "vmread_instruction_error")
           /\ FirstOf(c, "vmread_instruction_error") < FirstOf(c, "vmxoff")
      /\ pc[c] \in {"virtualize_57", "returned"} => Did(c, "vmread_instruction_error")

\* the launch failed, the error was read in root operation and VMXOFF was
\* executed after it
C15_Witness ==
  /\ pc[1] = "returned" /\ Failed(1, "vm_launch")
  /\ Succeeded(1, "vmread_instruction_error") /\ Succeeded(1, "vmxoff")
  /\ vmcs_fields[1]["VMCS_VM_INSTRUCTION_ERROR"] # 0

\* C16: enter_vmx_operation() executes the all-contexts INVEPT exactly when
\* VMXON succeeded, after the VMXON and before it returns true; when VMXON
\* fails it returns false with no invalidation, and virtualize() returns
\* false without executing VMXOFF.
C16_InveptIffVmxon ==
  \A c \in Cores :
    /\ Did(c, "invept") =>
         /\ Succeeded(c, "vmxon") /\ Times(c, "invept") = 1
         /\ FirstOf(c, "vmxon") < FirstOf(c, "invept")
    /\ Succeeded(c, "vmxon") => (pc[c] = "enter_invept" \/ Did(c, "invept"))
    /\ pc[c] = "enter_invept" => ~Did(c, "invept")
    /\ pc[c] = "virtualize_29" =>
         /\ ret[c] <=> Succeeded(c, "vmxon")
         /\ ret[c] => trace[c][Len(trace[c])].op = "invept"
    /\ Failed(c, "vmxon") =>
         /\ ~Did(c, "invept") /\ ~Did(c, "vmxoff")
         /\ vmx_mode[c] = "off"
         /\ pc[c] \in {"virtualize_29", "returned"}
         /\ pc[c] = "returned" => result[c] = "false"

\* VMXON failed and virtualize() has returned false
C16_Witness ==
  /\ pc[1] = "returned" /\ result[1] = "false" /\ Failed(1, "vmxon")
  /\ Succeeded(1, "enable_vmx_operation")

(***************************************************************************)
(* write_vmcs_host_fields() over the addresses of the host stack           *)
(***************************************************************************)
\* how far from its place in the object the host stack may start
MaxStackShift == 127

\* the addresses the host stack region is given
StackBases == { VAddr(1).host_stack_ + d : d \in 0..MaxStackShift }

\* core 1 is in VMX root operation with its VMCS current and is about to
\* write the host fields
InitHostStack ==
  /\ \E base \in StackBases :
       vaddr = [c \in Cores |-> IF c = 1 THEN [VAddr(c) EXCEPT !.host_stack_ = base]
                                         ELSE VAddr(c)]
  /\ pc = [c \in Cores |-> IF c = 1 THEN "write_vmcs_host_fields" ELSE "parked"]
  /\ vmx_mode = [c \in Cores |-> IF c = 1 THEN "root" ELSE "off"]
  /\ phys = [c \in Cores |-> Parked(c).phys]
  /\ current_vmcs = [c \in Cores |-> IF c = 1 THEN phys[c].vmcs_ ELSE NoVmcs]
  /\ vmcs_launch = [c \in Cores |-> IF c = 1 THEN "clear" ELSE "undefined"]
  /\ msr = [c \in Cores |-> Parked(c).msr]
  /\ vmxon_ = [c \in Cores |-> [revision_id |-> IF c = 1 THEN 1 ELSE 0, must_be_zero |-> 0]]
  /\ vmcs_ = [c \in Cores |-> [revision_id |-> IF c = 1 THEN 1 ELSE 0,
                               shadow_vmcs_indicator |-> 0]]
  /\ vmcs_fields = [c \in Cores |-> ZeroFields]
  /\ cpuid_1_ecx = [c \in Cores |-> {0, CPUID_VMX_BIT}]
  /\ cr0 = [c \in Cores |-> {0, 5, 31}]
  /\ cr4 = [c \in Cores |-> {5, CR4_VMX_ENABLE_BIT}]
  /\ at_entry = [c \in Cores |-> [cr0 |-> cr0[c], cr4 |-> cr4[c], rflags_if |-> TRUE]]
  /\ rflags_if = [c \in Cores |-> TRUE]
  /\ msr_bitmap_ = [c \in Cores |-> IF c = 1 THEN "zero" ELSE "garbage"]
  /\ host_tss_ = [c \in Cores |-> IF c = 1 THEN "zero" ELSE "garbage"]
  /\ host_idt_ = [c \in Cores |-> IF c = 1 THEN "prepared" ELSE "garbage"]
  /\ host_gdt_ = [c \in Cores |-> IF c = 1
                                    THEN [content |-> "prepared", tss |-> vaddr[c].host_tss_]
                                    ELSE [content |-> "garbage", tss |-> 0]]
  /\ local = [c \in Cores |-> NoLocals]
  /\ ret = [c \in Cores |-> c = 1]
  /\ result = [c \in Cores |-> "none"]
  /\ trace = [c \in Cores |-> << >>]
  /\ handed = [c \in Cores |-> << >>]
  /\ dispatched = [c \in Cores |-> NoDispatch]
  /\ frame = [c \in Cores |-> NoFrame]
  /\ calls = [c \in Cores |-> 0]
  /\ after_call = [c \in Cores |-> << >>]

NextHostStack == \E c \in Cores : write_vmcs_host_fields(c)

SpecHostStack == InitHostStack /\ [][NextHostStack]_vars

\* C17: for every address of the host stack region, the host RSP that
\* write_vmcs_host_fields() writes is the end of the region
\* (stack base + 0x6000) rounded down to a multiple of 16, minus 8; so it is
\* 8 modulo 16 and lies strictly between the base and the end of the region.
C17_HostRspInStack ==
  \A c \in Cores :
    Succeeded(c, "write_vmcs_host_fields") =>
      LET base == vaddr[c].host_stack_
          rsp == vmcs_fields[c]["VMCS_HOST_RSP"]
      IN /\ rsp = 16 * ((base + 24576) \div 16) - 8
         /\ rsp % 16 = 8
         /\ base < rsp /\ rsp < base + 24576

\* the host fields were written for a stack whose end is not a multiple of 16
C17_Witness ==
  /\ Succeeded(1, "write_vmcs_host_fields")
  /\ (vaddr[1].host_stack_ + 24576) % 16 = 5
  /\ vmcs_fields[1]["VMCS_HOST_RSP"] # 0

\* C18: the routing of handle_vm_exit depends on the low 16 bits of the exit
\* reason only: two invocations whose exit reasons have the same basic
\* reason, whatever their upper bits (the VM-entry-failure bit among them),
\* invoke the same handler or both reach the fatal branch.
C18_UpperBitsIgnored ==
  \A c, d \in Cores :
    ( /\ pc[c] = "vm_resume" /\ pc[d] = "vm_resume"
      /\ LowWord(dispatched[c].reason) = LowWord(dispatched[d].reason) ) =>
      /\ dispatched[c].handlers = dispatched[d].handlers
      /\ dispatched[c].fatal = dispatched[d].fatal

\* two dispatches of the basic reason 10 (CPUID), one of them with a bit set
\* above the basic reason
C18_Witness ==
  /\ pc[1] = "vm_resume" /\ pc[2] = "vm_resume"
  /\ dispatched[1].reason = {1, 3} /\ dispatched[2].reason = {1, 3, 27}
  /\ dispatched[1].handlers = << "emulate_cpuid" >>
  /\ dispatched[2].handlers = << "emulate_cpuid" >>

\* core c takes the step that is one invocation of handle_host_interrupt
BridgeStep(c) == pc[c] \in {"handle_vm_exit", "vm_resume"} /\ pc'[c] = "interrupt_return"

\* C19: handle_host_interrupt called with the NMI vector changes nothing but
\* the NMI-window-exiting bit: every other bit of the processor-based
\* controls and every other field of the VMCS keep their values; and it is
\* idempotent: an NMI that finds the bit set leaves the VMCS as it was, so any
\* number of NMIs in succession leave the controls as one NMI does.
C19_NmiChangesOneBit ==
  [][\A c \in Cores :
       (BridgeStep(c) /\ frame'[c].vector = nmi) =>
         LET ctrl == "VMCS_CTRL_PROCESSOR_BASED_VM_EXECUTION_CONTROLS"
             before == vmcs_fields[c]
             after == vmcs_fields'[c]
         IN /\ \A f \in AllFields \ {ctrl} : after[f] = before[f]
            /\ after[ctrl] \ {NMI_WINDOW_EXITING_BIT} = before[ctrl] \ {NMI_WINDOW_EXITING_BIT}
            /\ NMI_WINDOW_EXITING_BIT \in after[ctrl]
            /\ NMI_WINDOW_EXITING_BIT \in before[ctrl] => after = before
            /\ vmcs_launch'[c] = vmcs_launch[c] /\ current_vmcs'[c] = current_vmcs[c]]_vars

\* a second NMI in succession: the bridge has run on controls that already
\* had NMI-window exiting set, with other control bits set beside it
C19_Witness ==
  /\ pc[1] = "interrupt_return" /\ frame[1].vector = nmi
  /\ NMI_WINDOW_EXITING_BIT \in frame[1].ctrl_before
  /\ frame[1].ctrl_before \ {NMI_WINDOW_EXITING_BIT} # {}
  /\ read_ctrl_proc_based(1) = frame[1].ctrl_before
====
